---- MODULE Spec2Model ----
(***************************************************************************)
(* Model of backend/src/routers/items.py: the six item handlers            *)
(* (create_item, get_items, get_user_items, get_item, patch_item,          *)
(* delete_item) over a store of User and Item rows.                        *)
(*                                                                         *)
(* Spec     : every request runs to completion before the next one starts. *)
(* SpecRace : two patch_item requests on the same item, each split at the  *)
(*            point between its SELECT and its commit.                     *)
(***************************************************************************)
EXTENDS Integers, Sequences, FiniteSets, TLC

VARIABLES users, items, nextId, resp, sess, base, order

vars == <<users, items, nextId, resp, sess, base, order>>

(* ---------------------------------------------------------------- bounds *)
\* number of rows the item table ever receives
MaxItems == 2
\* largest offset / limit a list request is tried with
MaxOffset == 2
MaxLimit == 2

(* ------------------------------------------------------------ input sets *)
\* ids a request may name as user_id: 1 and 2 are stored users, 3 is not
UserIds == 1..3
\* ids a request may name as item_id (an id not generated yet, or deleted,
\* names no row)
ItemIds == 1..MaxItems
Titles == {"a", "b"}
Descriptions == {"x", "y"}

\* An optional field is <<>> (None / absent) or <<v>>.
None == <<>>
Some(v) == <<v>>

\* ItemBase: title, description and done all present.
ItemBase == [title : Titles, description : Descriptions, done : BOOLEAN]

\* ItemUpdate: every field optional; strings may be empty.
ItemUpdate ==
  [title : {None, Some(""), Some("b")},
   description : {None, Some(""), Some("y")},
   done : {None, Some(TRUE), Some(FALSE)}]

NoPayload == [title |-> None, description |-> None, done |-> None]

(* --------------------------------------------------------------- helpers *)
\* Python truthiness of an Optional[str]: None and "" are falsy.
Truthy(opt) == opt # None /\ opt[1] # ""

\* variant: the existence of the user is not looked up
GetUser_unchecked(us, user_id) == Some([id |-> user_id, is_admin |-> FALSE])

\* session.get(User, user_id)
GetUser(us, user_id) == IF user_id \in DOMAIN us THEN Some(us[user_id]) ELSE None

\* variant: the query filters on the item id only
FindItem_anyOwner(its, user_id, item_id) ==
  LET hits == {k \in 1..Len(its) : its[k].id = item_id}
  IN IF hits = {} THEN 0 ELSE CHOOSE k \in hits : \A j \in hits : k <= j

\* select(Item).where(Item.id == item_id).where(Item.user_id == user_id).first()
\* as the index of the row in the table, 0 when there is none
FindItem(its, user_id, item_id) ==
  LET hits == {k \in 1..Len(its) : its[k].id = item_id /\ its[k].user_id = user_id}
  IN IF hits = {} THEN 0 ELSE CHOOSE k \in hits : \A j \in hits : k <= j

\* user.items: the rows of one user, in table order
UserItems(its, user_id) == SelectSeq(its, LAMBDA it : it.user_id = user_id)

\* variant: the slice s[offset : limit]
Slice_endAtLimit(s, offset, limit) ==
  LET hi == IF limit < Len(s) THEN limit ELSE Len(s)
      lo == IF offset < hi THEN offset ELSE hi
  IN [k \in 1..(hi - lo) |-> s[lo + k]]

\* Python slice s[offset : offset + limit]
Slice(s, offset, limit) ==
  LET lo == IF offset < Len(s) THEN offset ELSE Len(s)
      hi == IF offset + limit < Len(s) THEN offset + limit ELSE Len(s)
  IN [k \in 1..(hi - lo) |-> s[lo + k]]

\* variant: the query applies the limit and not the offset
SelectPage_noOffset(its, offset, limit) ==
  [k \in 1..(IF limit < Len(its) THEN limit ELSE Len(its)) |-> its[k]]

\* select(Item).offset(offset).limit(limit): the rows of the table in storage
\* order, without the first offset ones, at most limit of them
SelectPage(its, offset, limit) ==
  LET n == IF Len(its) - offset < limit THEN Len(its) - offset ELSE limit
  IN [k \in 1..(IF n < 0 THEN 0 ELSE n) |-> its[offset + k]]

\* variant: the delete is never committed
RemoveAt_notCommitted(s, k) == s

\* session.delete(item); session.commit(): the sequence s without its k-th element
RemoveAt(s, k) == [j \in 1..(Len(s) - 1) |-> IF j < k THEN s[j] ELSE s[j + 1]]

\* variant: the admin exemption is left out
Denied_noAdmin(current_user, user_id) == current_user.id # user_id

\* the ownership-or-admin test written at the top of the user-scoped handlers
Denied(current_user, user_id) ==
  ~current_user.is_admin /\ current_user.id # user_id

\* the admin-only test of get_items
DeniedAll(current_user) == ~current_user.is_admin

\* HTTP status codes used by the handlers
HTTP_200_OK == 200
HTTP_201_CREATED == 201
HTTP_204_NO_CONTENT == 204
HTTP_403_FORBIDDEN == 403
HTTP_404_NOT_FOUND == 404

\* A request together with the answer it got.  body is the list of items in
\* the answer (one element for "item", the page for "items"); detail tells
\* which HTTPException was raised.
Response(op, caller, user_id, item_id, offset, limit, payload, status, detail, body) ==
  [op |-> op, caller |-> caller, user_id |-> user_id, item_id |-> item_id,
   offset |-> offset, limit |-> limit, payload |-> payload,
   status |-> status, detail |-> detail, body |-> body]

NoResponse == Response("none", 0, 0, 0, 0, 0, NoPayload, 0, "", <<>>)

\* what a handler leaves behind: the table, the id generator and the answer
Out(its, nid, r) == [items |-> its, nextId |-> nid, resp |-> r]

(* -------------------------------------------------------------- handlers *)
\* variant: title and description are passed in each other's place
NewItem_swapped(nid, item, user_db) ==
  [id |-> nid, title |-> item.description, description |-> item.title,
   done |-> item.done, user_id |-> user_db.id]

\* variant: the owner is not set on the new row
NewItem_noOwner(nid, item, user_db) ==
  [id |-> nid, title |-> item.title, description |-> item.description,
   done |-> item.done, user_id |-> 0]

\* Item(title=item.title, description=item.description, done=item.done,
\*      user_id=user_db.id), with the id the table generates on commit
NewItem(nid, item, user_db) ==
  [id |-> nid, title |-> item.title, description |-> item.description,
   done |-> item.done, user_id |-> user_db.id]

\* POST /users/{user_id}/items
create_item(us, its, nid, current_user, user_id, item) ==
  LET payload == [title |-> Some(item.title), description |-> Some(item.description),
                  done |-> Some(item.done)]
      R(status, detail, body) ==
        Response("create", current_user.id, user_id, 0, 0, 0, payload, status, detail, body)
      user_db == GetUser(us, user_id)
      new_item == NewItem(nid, item, user_db[1])
  IN IF Denied(current_user, user_id)
       THEN Out(its, nid, R(HTTP_403_FORBIDDEN, "rights", <<>>))
     ELSE IF user_db = None
       THEN Out(its, nid, R(HTTP_404_NOT_FOUND, "user", <<>>))
     ELSE Out(Append(its, new_item), nid + 1, R(HTTP_201_CREATED, "", <<new_item>>))

\* GET /items
get_items(us, its, nid, current_user, offset, limit) ==
  LET R(status, detail, body) ==
        Response("list_all", current_user.id, 0, 0, offset, limit, NoPayload, status, detail, body)
      page == SelectPage(its, offset, limit)
  IN IF DeniedAll(current_user)
       THEN Out(its, nid, R(HTTP_403_FORBIDDEN, "rights", <<>>))
     ELSE IF page = <<>>
       THEN Out(its, nid, R(HTTP_204_NO_CONTENT, "", <<>>))
     ELSE Out(its, nid, R(HTTP_200_OK, "", page))

\* GET /users/{user_id}/items
get_user_items(us, its, nid, current_user, user_id, offset, limit) ==
  LET R(status, detail, body) ==
        Response("list_user", current_user.id, user_id, 0, offset, limit, NoPayload, status, detail, body)
      user == GetUser(us, user_id)
      user_items == UserItems(its, user_id)
  IN IF Denied(current_user, user_id)
       THEN Out(its, nid, R(HTTP_403_FORBIDDEN, "rights", <<>>))
     ELSE IF user = None
       THEN Out(its, nid, R(HTTP_404_NOT_FOUND, "user", <<>>))
     ELSE IF user_items = <<>>
       THEN Out(its, nid, R(HTTP_204_NO_CONTENT, "", <<>>))
     ELSE Out(its, nid, R(HTTP_200_OK, "", Slice(user_items, offset, limit)))

\* GET /users/{user_id}/items/{item_id}
get_item(us, its, nid, current_user, user_id, item_id) ==
  LET R(status, detail, body) ==
        Response("get", current_user.id, user_id, item_id, 0, 0, NoPayload, status, detail, body)
      user == GetUser(us, user_id)
      k == FindItem(its, user_id, item_id)
  IN IF Denied(current_user, user_id)
       THEN Out(its, nid, R(HTTP_403_FORBIDDEN, "rights", <<>>))
     ELSE IF user = None
       THEN Out(its, nid, R(HTTP_404_NOT_FOUND, "user", <<>>))
     ELSE IF k = 0
       THEN Out(its, nid, R(HTTP_404_NOT_FOUND, "item", <<>>))
     ELSE Out(its, nid, R(HTTP_200_OK, "", <<its[k]>>))

\* variant: the title is tested for presence, not for truthiness
MergeTitle_isNotNone(item_db, item) ==
  IF item.title # None THEN [item_db EXCEPT !.title = item.title[1]] ELSE item_db

\* the three assignments of patch_item: the field-merge of the payload
MergeTitle(item_db, item) ==
  IF Truthy(item.title) THEN [item_db EXCEPT !.title = item.title[1]] ELSE item_db

MergeDescription(item_db, item) ==
  IF Truthy(item.description)
    THEN [item_db EXCEPT !.description = item.description[1]] ELSE item_db

MergeDone(item_db, item) ==
  IF item.done # None THEN [item_db EXCEPT !.done = item.done[1]] ELSE item_db

Merge(item_db, item) == MergeDone(MergeDescription(MergeTitle(item_db, item), item), item)

\* variant: the merged item is never committed
Flush_notCommitted(its, loaded, item_db) == its

\* session.add(item_db); session.commit(): the unit of work writes the
\* attributes of item_db whose value differs from the loaded one, in one
\* UPDATE of the row with item_db's primary key; a row that is gone is not
\* written.
Flush(its, loaded, item_db) ==
  [k \in 1..Len(its) |->
     IF its[k].id = loaded.id
       THEN [its[k] EXCEPT
               !.title = IF item_db.title # loaded.title THEN item_db.title ELSE @,
               !.description = IF item_db.description # loaded.description
                                 THEN item_db.description ELSE @,
               !.done = IF item_db.done # loaded.done THEN item_db.done ELSE @]
       ELSE its[k]]

\* session.refresh(item_db): the row with that primary key as it is stored now
Refresh(its, item_db) == SelectSeq(its, LAMBDA it : it.id = item_db.id)

\* PATCH /users/{user_id}/items/{item_id}
patch_item(us, its, nid, current_user, user_id, item_id, item) ==
  LET R(status, detail, body) ==
        Response("patch", current_user.id, user_id, item_id, 0, 0, item, status, detail, body)
      user == GetUser(us, user_id)
      k == FindItem(its, user_id, item_id)
      item_db == Merge(its[k], item)
      stored == Flush(its, its[k], item_db)
  IN IF Denied(current_user, user_id)
       THEN Out(its, nid, R(HTTP_403_FORBIDDEN, "rights", <<>>))
     ELSE IF user = None
       THEN Out(its, nid, R(HTTP_404_NOT_FOUND, "user", <<>>))
     ELSE IF k = 0
       THEN Out(its, nid, R(HTTP_404_NOT_FOUND, "item", <<>>))
     ELSE Out(stored, nid, R(HTTP_200_OK, "", Refresh(stored, item_db)))

\* DELETE /users/{user_id}/items/{item_id}
delete_item(us, its, nid, current_user, user_id, item_id) ==
  LET R(status, detail, body) ==
        Response("delete", current_user.id, user_id, item_id, 0, 0, NoPayload, status, detail, body)
      user == GetUser(us, user_id)
      k == FindItem(its, user_id, item_id)
  IN IF Denied(current_user, user_id)
       THEN Out(its, nid, R(HTTP_403_FORBIDDEN, "rights", <<>>))
     ELSE IF user = None
       THEN Out(its, nid, R(HTTP_404_NOT_FOUND, "user", <<>>))
     ELSE IF k = 0
       THEN Out(its, nid, R(HTTP_404_NOT_FOUND, "item", <<>>))
     ELSE Out(RemoveAt(its, k), nid, R(HTTP_200_OK, "", <<>>))

(* ----------------------------------------------------------------- state *)
\* the User table: one admin and one ordinary user
StoredUsers ==
  (1 :> [id |-> 1, is_admin |-> TRUE]) @@ (2 :> [id |-> 2, is_admin |-> FALSE])

\* get_current_active_user yields a stored user
Callers == {users[u] : u \in DOMAIN users}

NoSessions == [s \in {} |-> 0]

Init ==
  /\ users = StoredUsers
  /\ items = <<>>
  /\ nextId = 1
  /\ resp = NoResponse
  /\ sess = NoSessions
  /\ base = <<>>
  /\ order = <<>>

\* a handler ran from its first line to its return, answering one request
Handled(out) ==
  /\ out.nextId <= MaxItems + 1
  /\ items' = out.items
  /\ nextId' = out.nextId
  /\ resp' = out.resp
  /\ UNCHANGED <<users, sess, base, order>>

CreateItem ==
  /\ resp = NoResponse
  /\ \E current_user \in Callers, user_id \in UserIds, item \in ItemBase :
       Handled(create_item(users, items, nextId, current_user, user_id, item))

ListAllItems ==
  /\ resp = NoResponse
  /\ \E current_user \in Callers, offset \in 0..MaxOffset, limit \in 1..MaxLimit :
       Handled(get_items(users, items, nextId, current_user, offset, limit))

ListUserItems ==
  /\ resp = NoResponse
  /\ \E current_user \in Callers, user_id \in UserIds,
        offset \in 0..MaxOffset, limit \in 1..MaxLimit :
       Handled(get_user_items(users, items, nextId, current_user, user_id, offset, limit))

GetItem ==
  /\ resp = NoResponse
  /\ \E current_user \in Callers, user_id \in UserIds, item_id \in ItemIds :
       Handled(get_item(users, items, nextId, current_user, user_id, item_id))

PatchItem ==
  /\ resp = NoResponse
  /\ \E current_user \in Callers, user_id \in UserIds, item_id \in ItemIds, item \in ItemUpdate :
       Handled(patch_item(users, items, nextId, current_user, user_id, item_id, item))

DeleteItem ==
  /\ resp = NoResponse
  /\ \E current_user \in Callers, user_id \in UserIds, item_id \in ItemIds :
       Handled(delete_item(users, items, nextId, current_user, user_id, item_id))

\* the answer has gone out; the router takes the next request
Return ==
  /\ resp # NoResponse
  /\ resp' = NoResponse
  /\ UNCHANGED <<users, items, nextId, sess, base, order>>

Next ==
  \/ CreateItem
  \/ ListAllItems
  \/ ListUserItems
  \/ GetItem
  \/ PatchItem
  \/ DeleteItem
  \/ Return

Spec == Init /\ [][Next]_vars

(* ------------------------------------------------- two concurrent patches *)
\* Two workers serve one patch_item request each.  A request is split where
\* another worker can run: after the SELECT and the in-memory merge, before
\* session.add / session.commit.
Sessions == {1, 2}

\* the payloads the two racing requests are tried with
RaceUpdate ==
  [title : {None, Some(""), Some("a"), Some("b")},
   description : {None, Some("y")},
   done : {None, Some(TRUE), Some(FALSE)}]

Session(pc, caller, user_id, item_id, payload, loaded, item_db, status, body) ==
  [pc |-> pc, caller |-> caller, user_id |-> user_id, item_id |-> item_id,
   payload |-> payload, loaded |-> loaded, item_db |-> item_db,
   status |-> status, body |-> body]

Idle == Session("idle", 0, 0, 0, NoPayload, <<>>, <<>>, 0, <<>>)

\* patch_item up to the merge: the checks, the SELECT and the assignments
patch_item_load(us, its, current_user, user_id, item_id, item) ==
  LET S(pc, loaded, item_db, status) ==
        Session(pc, current_user.id, user_id, item_id, item, loaded, item_db, status, <<>>)
      user == GetUser(us, user_id)
      k == FindItem(its, user_id, item_id)
  IN IF Denied(current_user, user_id)
       THEN S("done", <<>>, <<>>, HTTP_403_FORBIDDEN)
     ELSE IF user = None
       THEN S("done", <<>>, <<>>, HTTP_404_NOT_FOUND)
     ELSE IF k = 0
       THEN S("done", <<>>, <<>>, HTTP_404_NOT_FOUND)
     ELSE S("loaded", <<its[k]>>, <<Merge(its[k], item)>>, 0)

\* patch_item from session.add to the return: commit, refresh, answer
patch_item_commit(its, se) ==
  LET stored == Flush(its, se.loaded[1], se.item_db[1])
      body == Refresh(stored, se.item_db[1])
  IN [items |-> stored,
      sess |-> [se EXCEPT !.pc = "done",
                          \* refresh of a row that is gone raises: the
                          \* framework answers 500
                          !.status = IF body = <<>> THEN 500 ELSE HTTP_200_OK,
                          !.body = body]]

\* the table holds one item, created by an earlier create_item
RaceInit ==
  /\ users = StoredUsers
  /\ \E user_id \in DOMAIN StoredUsers, item \in ItemBase :
       LET out == create_item(StoredUsers, <<>>, 1, StoredUsers[1], user_id, item)
       IN /\ items = out.items
          /\ nextId = out.nextId
          /\ base = out.items
  /\ resp = NoResponse
  /\ sess = [s \in Sessions |-> Idle]
  /\ order = <<>>

PatchLoad(s) ==
  /\ sess[s].pc = "idle"
  /\ \E current_user \in Callers, item \in RaceUpdate :
       sess' = [sess EXCEPT ![s] =
                  patch_item_load(users, items, current_user,
                                  base[1].user_id, base[1].id, item)]
  /\ UNCHANGED <<users, items, nextId, resp, base, order>>

PatchCommit(s) ==
  /\ sess[s].pc = "loaded"
  /\ LET out == patch_item_commit(items, sess[s])
     IN /\ items' = out.items
        /\ sess' = [sess EXCEPT ![s] = out.sess]
  /\ order' = Append(order, s)
  /\ UNCHANGED <<users, nextId, resp, base>>

RaceNext ==
  \/ \E s \in Sessions : PatchLoad(s)
  \/ \E s \in Sessions : PatchCommit(s)

SpecRace == RaceInit /\ [][RaceNext]_vars

(* ============================================================ properties *)
IsAdmin(caller) == users[caller].is_admin

\* the ownership-or-admin rule of the specification
Authorized(caller, user_id) == IsAdmin(caller) \/ caller = user_id

UserScoped == {"create", "list_user", "get", "patch", "delete"}

HasId(its, item_id) == \E k \in 1..Len(its) : its[k].id = item_id

Owns(its, user_id, item_id) ==
  \E k \in 1..Len(its) : its[k].id = item_id /\ its[k].user_id = user_id

RowIndex(its, item_id) == CHOOSE k \in 1..Len(its) : its[k].id = item_id

\* the step is a handler answering a request of one of the kinds in ops
Answers(ops) == resp = NoResponse /\ resp'.op \in ops

Min(a, b) == IF a < b THEN a ELSE b

(* ------------------------------------------------------------------- C1 *)
C1_Answer ==
  /\ resp.op \in UserScoped =>
       (resp.status = HTTP_403_FORBIDDEN <=> ~Authorized(resp.caller, resp.user_id))
  /\ resp.op = "list_all" =>
       (resp.status = HTTP_403_FORBIDDEN <=> ~IsAdmin(resp.caller))
  /\ (resp.op # "none" /\ IsAdmin(resp.caller)) => resp.status # HTTP_403_FORBIDDEN

C1_Step ==
  resp'.status = HTTP_403_FORBIDDEN =>
    users' = users /\ items' = items /\ nextId' = nextId

\* C1: each of the five user-scoped operations answers Forbidden exactly when
\* the caller is not an admin and is not the user named by user_id, whether
\* or not that user or the item exists; ListAllItems answers Forbidden exactly
\* when the caller is not an admin; an admin is never answered Forbidden; a
\* Forbidden request leaves the stored users and items as they were.
C1_ForbiddenIffNeitherOwnerNorAdmin == []C1_Answer /\ [][C1_Step]_vars

\* a patch answered Forbidden although the item exists under the named user
C1_Witness ==
  /\ resp.op = "patch"
  /\ resp.status = HTTP_403_FORBIDDEN
  /\ Owns(items, resp.user_id, resp.item_id)

(* ------------------------------------------------------------------- C2 *)
C2_Step ==
  ( /\ Answers({"get", "patch", "delete"})
    /\ Authorized(resp'.caller, resp'.user_id)
    /\ resp'.user_id \in DOMAIN users
    /\ ~Owns(items, resp'.user_id, resp'.item_id) )
  => /\ resp'.status = HTTP_404_NOT_FOUND
     /\ items' = items

\* C2: for an authorized caller and an existing target user, GetItem,
\* PatchItem and DeleteItem answer NotFound when no item with that id belongs
\* to user_id (the id is unused, or its item belongs to another user), and
\* the stored items are then neither modified nor deleted.
C2_NotFoundForForeignItem == [][C2_Step]_vars

\* a patch with a non-empty payload answered NotFound although an item with
\* that id is stored under another user
C2_Witness ==
  /\ resp.op = "patch"
  /\ resp.status = HTTP_404_NOT_FOUND
  /\ resp.user_id \in DOMAIN users
  /\ resp.payload.done # None
  /\ HasId(items, resp.item_id)
  /\ ~Owns(items, resp.user_id, resp.item_id)

(* ------------------------------------------------------------------- C3 *)
C3_OriginalStep ==
  (Answers({"create"}) /\ resp'.user_id \notin DOMAIN users)
  => /\ resp'.status = HTTP_404_NOT_FOUND
     /\ items' = items

\* C3 as stated: CreateItem with a user_id that matches no existing user
\* answers NotFound and leaves the stored items as they were.
C3_Original == [][C3_OriginalStep]_vars

C3_Step ==
  (Answers({"create"}) /\ resp'.user_id \notin DOMAIN users)
  => /\ items' = items
     /\ nextId' = nextId
     /\ resp'.status = IF Authorized(resp'.caller, resp'.user_id)
                         THEN HTTP_404_NOT_FOUND ELSE HTTP_403_FORBIDDEN

\* C3 amended: CreateItem with a user_id that matches no existing user never
\* creates a row; it answers NotFound when the caller passes the
\* ownership-or-admin check and Forbidden when the caller does not.
C3_NoRowForMissingUser == [][C3_Step]_vars

\* an admin's create for a missing user answered NotFound, rows already stored
C3_Witness ==
  /\ resp.op = "create"
  /\ resp.status = HTTP_404_NOT_FOUND
  /\ resp.user_id \notin DOMAIN users
  /\ items # <<>>

(* ------------------------------------------------------------------- C4 *)
C4_Step ==
  (Answers({"patch"}) /\ resp'.status = HTTP_200_OK)
  => LET p == resp'.payload
         k == RowIndex(items, resp'.item_id)
         old == items[k]
         new == items'[k]
     IN /\ Len(items') = Len(items)
        /\ \A j \in 1..Len(items) : j # k => items'[j] = items[j]
        /\ new.id = old.id
        /\ new.user_id = old.user_id
        /\ new.title = IF p.title \notin {None, Some("")} THEN p.title[1] ELSE old.title
        /\ new.description =
             IF p.description \notin {None, Some("")} THEN p.description[1]
             ELSE old.description
        /\ new.done = IF p.done # None THEN p.done[1] ELSE old.done
        /\ resp'.body = <<new>>

\* C4: a successful PatchItem replaces title only if the payload's title is
\* non-empty, description only if the payload's description is non-empty, and
\* done whenever the payload supplies it (false included); an absent or
\* empty-string title/description leaves the field as it was; the item's id
\* and user_id and every other stored item are left as they were.
C4_PatchMerge == [][C4_Step]_vars

\* a patch with an empty title and done = false, one other item stored
C4_Witness ==
  /\ resp.op = "patch"
  /\ resp.status = HTTP_200_OK
  /\ resp.payload.title = Some("")
  /\ resp.payload.done = Some(FALSE)
  /\ resp.body[1].title = "b"
  /\ Len(items) = 2

(* ------------------------------------------------------------------- C5 *)
C5_Step ==
  (Answers({"delete"}) /\ resp'.status = HTTP_200_OK)
  => LET u == resp'.user_id
         i == resp'.item_id
         NotFoundAfter(r) == r.resp.status = HTTP_404_NOT_FOUND /\ r.items = items'
         Without(r) == \A j \in 1..Len(r.resp.body) : r.resp.body[j].id # i
     IN /\ items' = SelectSeq(items, LAMBDA it : it.id # i)
        /\ Len(items') = Len(items) - 1
        /\ \A c \in DOMAIN users :
             Authorized(c, u) =>
               /\ NotFoundAfter(get_item(users, items', nextId', users[c], u, i))
               /\ NotFoundAfter(delete_item(users, items', nextId', users[c], u, i))
               /\ \A p \in ItemUpdate :
                    NotFoundAfter(patch_item(users, items', nextId', users[c], u, i, p))
        /\ \A c \in DOMAIN users, offset \in 0..MaxOffset, limit \in 1..MaxLimit :
             /\ Without(get_user_items(users, items', nextId', users[c], u, offset, limit))
             /\ Without(get_items(users, items', nextId', users[c], offset, limit))

C5_StaysGone ==
  \A i \in 1..(nextId - 1) : ~HasId(items, i) => ~HasId(items', i)

\* C5: after a successful DeleteItem(user_id, item_id), GetItem, PatchItem and
\* DeleteItem for the same user_id and item_id (by a caller who passes the
\* ownership-or-admin check, as the deleting caller does) answer NotFound, the
\* item is in no page of ListUserItems or ListAllItems, no other item is
\* removed, and the deleted id never names a stored item again.
C5_DeletedItemIsGone == [][C5_Step /\ C5_StaysGone]_vars

\* a successful delete that leaves another item in the table
C5_Witness ==
  /\ resp.op = "delete"
  /\ resp.status = HTTP_200_OK
  /\ items # <<>>

(* ------------------------------------------------------------------- C6 *)
C6_Created ==
  (Answers({"create"}) /\ resp'.status = HTTP_201_CREATED)
  => LET u == resp'.user_id
         p == resp'.payload
         i == resp'.body[1].id
     IN \A c \in DOMAIN users :
          Authorized(c, u) =>
            LET g == get_item(users, items', nextId', users[c], u, i).resp
            IN /\ g.status = HTTP_200_OK
               /\ Len(g.body) = 1
               /\ g.body[1].id = i
               /\ g.body[1].title = p.title[1]
               /\ g.body[1].description = p.description[1]
               /\ g.body[1].done = p.done[1]
               /\ g.body[1].user_id = u

\* GetItem succeeds for the stored rows only, under their owner's user_id;
\* a step that leaves the store as it was leaves its answers as they were
C6_Kept ==
  \/ users' = users /\ items' = items /\ nextId' = nextId
  \/ \A k \in 1..Len(items), c \in DOMAIN users :
       LET u == items[k].user_id
           i == items[k].id
           before == get_item(users, items, nextId, users[c], u, i).resp
           after == get_item(users', items', nextId', users[c], u, i).resp
       IN ( /\ Authorized(c, u)
            /\ before.status = HTTP_200_OK
            /\ ~(resp'.op \in {"patch", "delete"} /\ resp'.item_id = i) )
          => after = before

\* C6: the item a successful CreateItem(user_id, payload) returns is what
\* GetItem(user_id, id) returns to every authorized caller: same title,
\* description and done as the payload, user_id the target user; and a step
\* that is not a patch or delete of that id does not change what GetItem
\* returns for it.
C6_CreateThenGet == [][C6_Created /\ C6_Kept]_vars

\* an admin reads an item of another user: the second row of the table
C6_Witness ==
  /\ resp.op = "get"
  /\ resp.status = HTTP_200_OK
  /\ resp.caller # resp.user_id
  /\ resp.item_id = 2
  /\ resp.body[1].user_id = resp.user_id

(* ------------------------------------------------------------------- C7 *)
\* positions in the table of the rows user_id owns
OwnedAt(user_id) == {k \in 1..Len(items) : items[k].user_id = user_id}

\* the n-th row user_id owns, counting in table order
NthOwned(user_id, n) ==
  items[CHOOSE k \in OwnedAt(user_id) :
          Cardinality({m \in OwnedAt(user_id) : m <= k}) = n]

\* C7: for an authorized caller and an existing user, ListUserItems answers
\* 204 exactly when the user owns no item at all, whatever offset and limit
\* are; when the user owns an item it answers 200 with the slice
\* [offset, offset + limit) of the user's items, which is the empty list when
\* offset is at or beyond their number.
C7_ListUserItems ==
  ( /\ resp.op = "list_user"
    /\ Authorized(resp.caller, resp.user_id)
    /\ resp.user_id \in DOMAIN users )
  => LET n == Cardinality(OwnedAt(resp.user_id))
         len == IF resp.offset >= n THEN 0 ELSE Min(resp.limit, n - resp.offset)
     IN /\ resp.status \in {HTTP_200_OK, HTTP_204_NO_CONTENT}
        /\ resp.status = HTTP_204_NO_CONTENT <=> n = 0
        /\ resp.status = HTTP_204_NO_CONTENT => resp.body = <<>>
        /\ resp.status = HTTP_200_OK =>
             /\ Len(resp.body) = len
             /\ \A j \in 1..len : resp.body[j] = NthOwned(resp.user_id, resp.offset + j)

\* a 200 with an empty list: the user owns an item, the offset is beyond it
C7_Witness ==
  /\ resp.op = "list_user"
  /\ resp.status = HTTP_200_OK
  /\ resp.body = <<>>
  /\ resp.offset > 0

(* ------------------------------------------------------------------- C8 *)
\* C8: for an admin caller, ListAllItems answers 204 exactly when skipping
\* offset rows of the table and taking at most limit leaves no row; otherwise
\* it answers 200 with exactly that page in table order, never with an empty
\* list.
C8_ListAllItems ==
  (resp.op = "list_all" /\ IsAdmin(resp.caller))
  => LET len == IF resp.offset >= Len(items) THEN 0
                ELSE Min(resp.limit, Len(items) - resp.offset)
     IN /\ resp.status \in {HTTP_200_OK, HTTP_204_NO_CONTENT}
        /\ resp.status = HTTP_204_NO_CONTENT <=> len = 0
        /\ resp.status = HTTP_204_NO_CONTENT => resp.body = <<>>
        /\ resp.status = HTTP_200_OK =>
             /\ resp.body # <<>>
             /\ Len(resp.body) = len
             /\ \A j \in 1..len : resp.body[j] = items[resp.offset + j]

\* a 204 although the table holds rows: the offset is beyond them
C8_Witness ==
  /\ resp.op = "list_all"
  /\ resp.status = HTTP_204_NO_CONTENT
  /\ items # <<>>

(* ------------------------------------------------------------------- C9 *)
C9_Rows ==
  /\ \A k \in 1..Len(items) : items[k].user_id \in DOMAIN users
  /\ \A k, j \in 1..Len(items) : items[k].id = items[j].id => k = j

C9_Step ==
  \A j \in 1..Len(items') :
    \/ \E k \in 1..Len(items) :
         items[k].id = items'[j].id /\ items[k].user_id = items'[j].user_id
    \/ /\ ~HasId(items, items'[j].id)
       /\ resp'.op = "create"
       /\ items'[j].user_id \in DOMAIN users

\* C9: in every reachable state every stored item has one user_id, which is
\* the id of a stored user, and item ids are unique; no step changes the id or
\* the user_id of a stored item, and a new row appears only by CreateItem, for
\* a user that exists.
C9_Ownership == []C9_Rows /\ [][C9_Step]_vars

\* an admin has patched the item of the other user; each user owns one item
C9_Witness ==
  /\ Len(items) = 2
  /\ items[1].user_id # items[2].user_id
  /\ resp.op = "patch"
  /\ resp.status = HTTP_200_OK
  /\ resp.caller # resp.user_id

(* ------------------------------------------------------------------ C10 *)
\* both racing requests have committed and were answered 200
BothCommitted ==
  /\ Len(order) = 2
  /\ \A s \in Sessions : sess[s].pc = "done" /\ sess[s].status = HTTP_200_OK

\* the values request s supplies for a field (the merge ignores "" and None)
Supplied(s, f) ==
  LET v == sess[s].payload[f]
  IN IF v = None THEN {}
     ELSE IF f # "done" /\ v[1] = "" THEN {}
     ELSE {v[1]}

Fields == {"title", "description", "done"}

C10_NotCorrupted ==
  /\ Len(items) = 1
  /\ items[1].id = base[1].id
  /\ items[1].user_id = base[1].user_id
  /\ \A f \in Fields :
       items[1][f] \in {base[1][f]} \cup Supplied(1, f) \cup Supplied(2, f)

====
